---------------------------- MODULE Spec2Model ----------------------------
(***************************************************************************)
(* A model of commitgen's commit-message core, package commitrules         *)
(* (src/pkg/commitrules/rules.go): the registry CommitRules, the prompt     *)
(* builder GetPrompt, the normalizer CleanCommitMessage and the validator  *)
(* ValidateCommitMessage; and of the command that uses them,               *)
(* generateCommitMessage (src/main.go:591-617, the revision of version     *)
(* v0.1.4): analysis, provider call, cleaning, validation, confirmation    *)
(* and commit.                                                             *)
(*                                                                         *)
(* A Go string is modelled as a sequence of one-character strings, one per *)
(* byte: the model's texts are ASCII, so that len(s), which counts bytes,  *)
(* is Len(s).  The literal pieces of a format string are kept as whole     *)
(* string tokens; a formatted text is the sequence of its tokens and       *)
(* characters in order.                                                    *)
(***************************************************************************)
EXTENDS Integers, Sequences, FiniteSets, TLC

VARIABLES
    message,        \* the argument of CleanCommitMessage / ValidateCommitMessage
    cleaned,        \* the results of the calls of CleanCommitMessage, in order
    verdicts,       \* the results of the calls of ValidateCommitMessage, in order
    analysisInput,  \* the argument of GetPrompt
    prompts,        \* the results of the calls of GetPrompt, in order
    pc,             \* the step generateCommitMessage is at
    mode,           \* the mode of the command: staged, all or untracked
    provider,       \* the provider name handed to callAIAPI
    log,            \* the commands run and the texts printed, in order
    result          \* the error generateCommitMessage returns

\* The state of the command.
commandVars == <<pc, mode, provider, log, result>>

vars == <<message, cleaned, verdicts, analysisInput, prompts,
          pc, mode, provider, log, result>>

(***************************************************************************)
(* Characters and the helpers of package strings.                          *)
(***************************************************************************)

\* The characters strings.TrimSpace removes (unicode.IsSpace, ASCII part)
\* and the ones the regular expression class \s matches.
Space == {" ", "\t", "\n", "\r"}

\* The cutset of strings.Trim(message, `"'`).
Quotes == {"\"", "'"}

\* The class [a-z].
Lower == {"a", "b", "c", "d", "e", "f", "g", "h", "i", "j", "k", "l", "m",
          "n", "o", "p", "q", "r", "s", "t", "u", "v", "w", "x", "y", "z"}

\* The least and the greatest element of a non-empty set of integers.
Min(S) == CHOOSE x \in S : \A y \in S : x <= y

Max(S) == CHOOSE x \in S : \A y \in S : x >= y

\* The index after the longest run of characters of cs that starts at i.
RunEndIn(s, i, cs) ==
    IF i > Len(s) THEN i
    ELSE CHOOSE j \in i..(Len(s) + 1) :
             /\ \A k \in i..(j - 1) : s[k] \in cs
             /\ j > Len(s) \/ s[j] \notin cs

\* The index after the longest run of characters not in cs that starts at i.
RunEndNotIn(s, i, cs) ==
    LET stops == {j \in i..Len(s) : s[j] \in cs}
    IN  IF stops # {} THEN Min(stops) ELSE IF i > Len(s) THEN i ELSE Len(s) + 1

\* The index before the longest run of characters of cs that ends at i.
RunStartIn(s, i, cs) ==
    IF i < 1 THEN i
    ELSE CHOOSE j \in 0..i :
             /\ \A k \in (j + 1)..i : s[k] \in cs
             /\ j < 1 \/ s[j] \notin cs

\* strings.Trim(s, cutset): s without its leading and trailing characters
\* of the cutset.
Trim(s, cs) ==
    LET lo == RunEndIn(s, 1, cs)
        hi == RunStartIn(s, Len(s), cs)
    IN  IF lo > hi THEN <<>> ELSE SubSeq(s, lo, hi)

\* strings.TrimSpace(s).
TrimSpace(s) == Trim(s, Space)

\* strings.Contains(s, sub).
Contains(s, sub) ==
    \E i \in 1..(Len(s) - Len(sub) + 1) :
        \A j \in 1..Len(sub) : s[i + j - 1] = sub[j]

\* strings.HasSuffix(s, suffix).
HasSuffix(s, suffix) ==
    /\ Len(suffix) <= Len(s)
    /\ \A j \in 1..Len(suffix) : s[Len(s) - Len(suffix) + j] = suffix[j]

\* strings.Index(s, c) for a one-character c, 1-based; 0 when c is absent.
Index(s, c) ==
    LET i == RunEndNotIn(s, 1, {c}) IN IF i <= Len(s) THEN i ELSE 0

\* strings.Split(s, "\n")[0]: the text before the first line feed.
FirstOfSplit(s, c) ==
    LET i == Index(s, c) IN IF i = 0 THEN s ELSE SubSeq(s, 1, i - 1)

\* strings.SplitN(s, c, 2): one part when c is absent, else the text before
\* the first c and the text after it.
SplitN2(s, c) ==
    LET i == Index(s, c)
    IN  IF i = 0 THEN <<s>>
        ELSE <<SubSeq(s, 1, i - 1), SubSeq(s, i + 1, Len(s))>>

\* strings.Join(elems, sep).
RECURSIVE Join(_, _)
Join(elems, sep) ==
    IF Len(elems) = 0 THEN <<>>
    ELSE IF Len(elems) = 1 THEN elems[1]
    ELSE elems[1] \o sep \o Join(Tail(elems), sep)

(***************************************************************************)
(* The registry (rules.go:17-53) and GetCommitTypes (rules.go:56-62).      *)
(***************************************************************************)

\* The keys of the map literal CommitRules, in the order they are written.
CommitRuleKeys ==
    << <<"f", "e", "a", "t">>,
       <<"f", "i", "x">>,
       <<"d", "o", "c", "s">>,
       <<"s", "t", "y", "l", "e">>,
       <<"r", "e", "f", "a", "c", "t", "o", "r">>,
       <<"t", "e", "s", "t">>,
       <<"c", "h", "o", "r", "e">> >>

\* The map CommitRules: each key maps to the rule of that Type.  The
\* Description and Examples fields are read by no function of the package.
CommitRules == [k \in {CommitRuleKeys[i] : i \in DOMAIN CommitRuleKeys} |-> [Type |-> k]]

\* The slice s rotated left by r places.
Rotate(s, r) == [i \in 1..Len(s) |-> s[((i - 1 + r) % Len(s)) + 1]]

\* GetCommitTypes ranges over the map: Go leaves the iteration order of a
\* map unspecified, and the runtime starts each iteration of a map this
\* small at a random slot and wraps around.  The possible results are the
\* rotations of the keys.
GetCommitTypesButLast ==
    {SubSeq(Rotate(CommitRuleKeys, r), 1, Len(CommitRuleKeys) - 1) :
        r \in 0..(Len(CommitRuleKeys) - 1)}

GetCommitTypes == {Rotate(CommitRuleKeys, r) : r \in 0..(Len(CommitRuleKeys) - 1)}

(***************************************************************************)
(* GetPrompt (rules.go:65-93).                                             *)
(***************************************************************************)

\* The format string up to its first %s; the elements the tests look for
\* are tokens of their own.
PromptHead ==
    << "You are a commit message generator. Your ONLY task is to output a single ",
       "conventional commit message",
       ".\n\nFORMAT: ",
       "type(scope): description",
       "\nRULES:\n- ",
       "Maximum 50 characters total",
       "\n- Types: " >>

\* The format string between its two %s.
PromptRules ==
    << "\n- Extract scope from file paths (api, ui, core, scripts, pkg, etc.)",
       "\n- Use lowercase, present tense, imperative mood",
       "\n- No periods, quotes, or extra text",
       "\n\nEXAMPLE OUTPUTS:",
       "\nfeat(core): add user authentication",
       "\nfix(api): resolve null pointer exception",
       "\ndocs(readme): update installation guide",
       "\nstyle(ui): format button components",
       "\nrefactor(db): simplify query logic",
       "\ntest(auth): add unit tests for login",
       "\nchore(deps): update go modules",
       "\n\n",
       "CRITICAL: Respond with ONLY the commit message",
       ". No explanations, no quotes, no \"Here is the commit message:\", no extra text whatsoever.",
       "\n\n",
       "Git diff to analyze:",
       "\n" >>

\* fmt.Sprintf of the prompt's format with the two arguments.
SprintfPromptSwapped(commitTypesList, input) ==
    PromptHead \o input \o PromptRules \o commitTypesList

SprintfPrompt(commitTypesList, input) ==
    PromptHead \o commitTypesList \o PromptRules \o input

\* The strings GetPrompt(analysisInput) can return, one per order in which
\* GetCommitTypes can list the types.
GetPrompt(input) ==
    {SprintfPrompt(Join(types, <<",", " ">>), input) : types \in GetCommitTypes}

(***************************************************************************)
(* CleanCommitMessage (rules.go:96-145).                                   *)
(***************************************************************************)

\* The hard limit on the length of a message (rules.go:112, 132, 139, 170).
MaxLength == 72

\* The recommended length of a message (rules.go:174).
RecommendedLength == 50

\* The result of a search that finds no match (FindStringSubmatch's nil).
NoMatch == [found |-> FALSE, group |-> <<>>]

\* s[i..] begins with the literal lit.
LiteralAt(s, i, lit) ==
    /\ i + Len(lit) - 1 <= Len(s)
    /\ \A j \in 1..Len(lit) : s[i + j - 1] = lit[j]

\* The match of  \s*"?([^"]+)"?  at index p of s, as a backtracking search
\* finds it: \s* takes the longest run of white space; then an optional
\* double quote is taken when one is there; then the group takes the longest
\* run of characters other than a double quote, at least one.  When no such
\* character follows, \s* gives back its last white-space character to the
\* group.  The result is the group, or NoMatch.
PhraseTail(s, p) ==
    LET w == RunEndIn(s, p, Space)
        afterQuote == RunEndNotIn(s, w + 1, {"\""})
        plain == RunEndNotIn(s, w, {"\""})
    IN  IF w <= Len(s) /\ s[w] = "\"" /\ afterQuote > w + 1
            THEN [found |-> TRUE, group |-> SubSeq(s, w + 1, afterQuote - 1)]
        ELSE IF plain > w
            THEN [found |-> TRUE, group |-> SubSeq(s, w, plain - 1)]
        ELSE IF w > p
            THEN [found |-> TRUE, group |-> SubSeq(s, w - 1, w - 1)]
        ELSE NoMatch

\* FindStringSubmatch of  lit\s*"?([^"]+)"?  in s: the match at the
\* leftmost index where lit stands and the rest of the pattern matches.
FindPhrase(s, lit) ==
    LET starts == {i \in 1..(Len(s) - Len(lit) + 1) :
                       LiteralAt(s, i, lit) /\ PhraseTail(s, i + Len(lit)).found}
    IN  IF starts = {} THEN NoMatch
        ELSE PhraseTail(s, Min(starts) + Len(lit))

\* FindStringSubmatch of  ^\s*([a-z]+\([^)]+\):\s*[^.]+)  in s: after the
\* leading white space, lower-case letters, a parenthesised scope of at
\* least one character, a colon, and then every character up to the first
\* period, at least one.
FindDirect(s) ==
    LET a == RunEndIn(s, 1, Space)
        b == RunEndIn(s, a, Lower)
        c == RunEndNotIn(s, b + 1, {")"})
        e == RunEndNotIn(s, c + 2, {"."})
    IN  IF /\ b > a
           /\ b <= Len(s) /\ s[b] = "("
           /\ c > b + 1
           /\ c + 1 <= Len(s) /\ s[c] = ")" /\ s[c + 1] = ":"
           /\ e > c + 2
        THEN [found |-> TRUE, group |-> SubSeq(s, a, e - 1)]
        ELSE NoMatch

\* The literal each of the first four patterns begins with (rules.go:120-123).
PhraseLiterals ==
    << <<"c", "o", "m", "m", "i", "t", " ", "m", "e", "s", "s", "a", "g", "e", ":">>,
       <<"s", "h", "o", "u", "l", "d", " ", "b", "e", ":">>,
       <<"m", "e", "s", "s", "a", "g", "e", " ", "i", "s", ":">>,
       <<"m", "e", "s", "s", "a", "g", "e", ":">> >>

\* The number of patterns (rules.go:119-125).
NumPatterns == Len(PhraseLiterals) + 1

\* re.FindStringSubmatch(firstLine) for the k-th pattern of the list.
FindStringSubmatch(k, firstLine) ==
    IF k <= Len(PhraseLiterals) THEN FindPhrase(firstLine, PhraseLiterals[k])
    ELSE FindDirect(firstLine)

\* The loop over the patterns from the k-th on (rules.go:127-136): the
\* candidate of the first match that has a colon and is shorter than the
\* limit, without its quotes; and the two returns of firstLine that follow
\* the loop (rules.go:139-144).
RECURSIVE ExtractFromFirstMatchOnly(_, _)
ExtractFromFirstMatchOnly(k, firstLine) ==
    IF k > NumPatterns THEN firstLine
    ELSE LET matches == FindStringSubmatch(k, firstLine)
             candidate == TrimSpace(matches.group)
         IN  IF ~matches.found
             THEN ExtractFromFirstMatchOnly(k + 1, firstLine)
             ELSE IF Contains(candidate, <<":">>) /\ Len(candidate) < MaxLength
             THEN Trim(candidate, Quotes)
             ELSE firstLine

RECURSIVE ExtractFromStrict(_, _)
ExtractFromStrict(k, firstLine) ==
    IF k > NumPatterns
        THEN IF Contains(firstLine, <<":">>) THEN firstLine ELSE <<>>
    ELSE LET matches == FindStringSubmatch(k, firstLine)
             candidate == TrimSpace(matches.group)
         IN  IF /\ matches.found
                /\ Contains(candidate, <<":">>)
                /\ Len(candidate) < MaxLength
             THEN Trim(candidate, Quotes)
             ELSE ExtractFromStrict(k + 1, firstLine)

RECURSIVE ExtractFrom(_, _)
ExtractFrom(k, firstLine) ==
    IF k > NumPatterns THEN firstLine
    ELSE LET matches == FindStringSubmatch(k, firstLine)
             candidate == TrimSpace(matches.group)
         IN  IF /\ matches.found
                /\ Contains(candidate, <<":">>)
                /\ Len(candidate) < MaxLength
             THEN Trim(candidate, Quotes)
             ELSE ExtractFrom(k + 1, firstLine)

\* The test of a first line that is returned as it is (rules.go:106-116).
LooksProper(firstLine) ==
    LET parts == SplitN2(firstLine, ":")
    IN  /\ Contains(firstLine, <<":">>)
        /\ Len(parts) = 2
        /\ Len(TrimSpace(parts[1])) > 0
        /\ Len(TrimSpace(parts[2])) > 0
        /\ Len(firstLine) < MaxLength

\* lines[0], trimmed, of the message without its quotes and white space
\* (rules.go:98-103).
FirstLineDoubleQuotesOnly(msg) ==
    TrimSpace(FirstOfSplit(TrimSpace(Trim(msg, {"\""})), "\n"))

FirstLineUnsplit(msg) == TrimSpace(TrimSpace(Trim(msg, Quotes)))

FirstLineUntrimmed(msg) == FirstOfSplit(Trim(msg, Quotes), "\n")

FirstLineSplitOnReturn(msg) ==
    TrimSpace(FirstOfSplit(TrimSpace(Trim(msg, Quotes)), "\r"))

FirstLine(msg) ==
    TrimSpace(FirstOfSplit(TrimSpace(Trim(msg, Quotes)), "\n"))

CleanCommitMessageCut(msg) ==
    LET firstLine == FirstLine(msg)
        r == IF LooksProper(firstLine) THEN firstLine
             ELSE ExtractFrom(1, firstLine)
    IN  SubSeq(r, 1, Min({Len(r), MaxLength}))

CleanCommitMessageDefaulting(msg) ==
    LET firstLine == FirstLine(msg)
    IN  IF LooksProper(firstLine) THEN firstLine
        ELSE IF ~Contains(firstLine, <<":">>)
        THEN <<"c", "h", "o", "r", "e", ":", " ">> \o firstLine
        ELSE ExtractFrom(1, firstLine)

CleanCommitMessage(msg) ==
    LET firstLine == FirstLine(msg)
    IN  IF LooksProper(firstLine) THEN firstLine
        ELSE ExtractFrom(1, firstLine)

(***************************************************************************)
(* ValidateCommitMessage (rules.go:148-179).                               *)
(***************************************************************************)

\* A nil error.
Nil == [format |-> "", args |-> <<>>]

\* fmt.Errorf(format, args...) and the text fmt.Printf(format, args...)
\* writes: the format string and its arguments.
Sprintf(format, args) == [format |-> format, args |-> args]

\* The texts of the three errors and of the warning.
FormatMalformed == "commit message must follow format: type(scope): description"

FormatInvalidType == "invalid commit type: %s. Valid types: %s"

FormatTooLong == "commit message is too long: %d characters (maximum: 72)"

FormatWarning == "Warning: Commit message is %d characters (recommended: <50)\n"

\* The message has no colon to split at (rules.go:152-153).
MissingColonIfNoParts(parts) == Len(parts) = 0

MissingColon(parts) == Len(parts) # 2

\* commitType: the text of the trimmed part before the first colon up to
\* its first "(" (rules.go:158-164).
CommitTypeWithScope(parts) == TrimSpace(parts[1])

CommitType(parts) == SplitN2(TrimSpace(parts[1]), "(")[1]

\* The message is longer than the limit (rules.go:170).
TooLongFrom(m) == Len(m) >= MaxLength

TooLong(m) == Len(m) > MaxLength

\* The message is longer than recommended (rules.go:174).
OverRecommended(m) == Len(m) > RecommendedLength

ValidateNeedsDescription(msg) ==
    LET m == TrimSpace(msg)
        parts == SplitN2(m, ":")
    IN  IF MissingColon(parts) \/ TrimSpace(parts[2]) = <<>>
            THEN {[err |-> Sprintf(FormatMalformed, <<>>), out |-> <<>>]}
        ELSE IF CommitType(parts) \notin DOMAIN CommitRules
            THEN {[err |-> Sprintf(FormatInvalidType,
                                   <<CommitType(parts), Join(types, <<",", " ">>)>>),
                   out |-> <<>>] : types \in GetCommitTypes}
        ELSE IF TooLong(m)
            THEN {[err |-> Sprintf(FormatTooLong, <<Len(m)>>), out |-> <<>>]}
        ELSE IF OverRecommended(m)
            THEN {[err |-> Nil, out |-> <<Sprintf(FormatWarning, <<Len(m)>>)>>]}
        ELSE {[err |-> Nil, out |-> <<>>]}

ValidateLengthFirst(msg) ==
    LET m == TrimSpace(msg)
        parts == SplitN2(m, ":")
    IN  IF TooLong(m)
            THEN {[err |-> Sprintf(FormatTooLong, <<Len(m)>>), out |-> <<>>]}
        ELSE IF MissingColon(parts)
            THEN {[err |-> Sprintf(FormatMalformed, <<>>), out |-> <<>>]}
        ELSE IF CommitType(parts) \notin DOMAIN CommitRules
            THEN {[err |-> Sprintf(FormatInvalidType,
                                   <<CommitType(parts), Join(types, <<",", " ">>)>>),
                   out |-> <<>>] : types \in GetCommitTypes}
        ELSE IF OverRecommended(m)
            THEN {[err |-> Nil, out |-> <<Sprintf(FormatWarning, <<Len(m)>>)>>]}
        ELSE {[err |-> Nil, out |-> <<>>]}

\* The results ValidateCommitMessage(msg) can have: the error returned and
\* the text printed.  The text of an invalid type lists the types in the
\* order GetCommitTypes gives them.
ValidateCommitMessage(msg) ==
    LET m == TrimSpace(msg)
        parts == SplitN2(m, ":")
    IN  IF MissingColon(parts)
            THEN {[err |-> Sprintf(FormatMalformed, <<>>), out |-> <<>>]}
        ELSE IF CommitType(parts) \notin DOMAIN CommitRules
            THEN {[err |-> Sprintf(FormatInvalidType,
                                   <<CommitType(parts), Join(types, <<",", " ">>)>>),
                   out |-> <<>>] : types \in GetCommitTypes}
        ELSE IF TooLong(m)
            THEN {[err |-> Sprintf(FormatTooLong, <<Len(m)>>), out |-> <<>>]}
        ELSE IF OverRecommended(m)
            THEN {[err |-> Nil, out |-> <<Sprintf(FormatWarning, <<Len(m)>>)>>]}
        ELSE {[err |-> Nil, out |-> <<>>]}

(***************************************************************************)
(* The texts the functions are applied to.                                 *)
(***************************************************************************)

\* The longest decoration (quotes, white space) put before and after a text.
MaxPad == 1

\* The number of times a function is called in a row.
MaxCalls == 2

\* The sequences over the set cs of length n, and of length at most n.
RECURSIVE SeqsOfLen(_, _)
SeqsOfLen(cs, n) ==
    IF n = 0 THEN {<<>>}
    ELSE {<<c>> \o t : c \in cs, t \in SeqsOfLen(cs, n - 1)}

SeqsUpTo(cs, n) == UNION {SeqsOfLen(cs, k) : k \in 0..n}

\* n times the letter a.
Filler(n) == [i \in 1..n |-> "a"]

\* Decorations: a provider's answer comes with quotes and blank lines
\* around it.
Pads == SeqsUpTo({"\n", "\""}, MaxPad)

\* Explanatory prose of a provider, as in the tests (part_002:406-415).
LongProse ==
    <<"L", "o", "o", "k", "i", "n", "g", " ", "a", "t", " ", "t", "h", "e",
      " ", "g", "i", "t", " ", "d", "i", "f", "f", ",", " ", "I", " ", "c",
      "a", "n", " ", "s", "e", "e", " ", "t", "h", "i", "s", " ", "i", "s",
      " ", "a", " ", "m", "a", "j", "o", "r", " ", "r", "e", "f", "a", "c",
      "t", "o", "r", "i", "n", "g", ".", " ">>

IntroShouldBe ==
    <<"T", "h", "e", " ", "c", "o", "m", "m", "i", "t", " ", "m", "e", "s",
      "s", "a", "g", "e", " ", "s", "h", "o", "u", "l", "d", " ", "b", "e",
      ":", " ">>

IntroCommitMessage ==
    <<"c", "o", "m", "m", "i", "t", " ", "m", "e", "s", "s", "a", "g", "e",
      ":", " ">>

IntroMessageIs ==
    <<"T", "h", "e", " ", "m", "e", "s", "s", "a", "g", "e", " ", "i", "s",
      ":", " ">>

IntroMessage ==
    <<"m", "e", "s", "s", "a", "g", "e", ":", " ">>

\* What stands before the message: nothing, or prose that ends with one of
\* the phrases, short or long.
Wrappers ==
    {prose \o intro :
        prose \in {<<>>, LongProse},
        intro \in {<<>>, IntroShouldBe, IntroCommitMessage, IntroMessageIs,
                   IntroMessage}}

\* Messages: conventional ones, with and without scope, ones with an empty
\* side, without colon, with a period, empty, blank, and at the length
\* limit.
MsgFix ==
    <<"f", "i", "x", ":", " ", "r", "e", "s", "o", "l", "v", "e", " ", "b",
      "u", "g">>

MsgScoped ==
    <<"r", "e", "f", "a", "c", "t", "o", "r", "(", "c", "o", "r", "e", ")",
      ":", " ", "e", "x", "t", "r", "a", "c", "t", " ", "v", "a", "l", "i",
      "d", "a", "t", "i", "o", "n", " ", "l", "o", "g", "i", "c">>

MsgNoColon ==
    <<"a", "d", "d", " ", "n", "e", "w", " ", "f", "e", "a", "t", "u", "r",
      "e">>

MsgNoDescription ==
    <<"f", "e", "a", "t", ":">>

MsgNoType ==
    <<":", " ", "a", "d", "d", " ", "n", "e", "w", " ", "f", "e", "a", "t", "u", "r", "e">>

MsgPeriod ==
    <<"f", "i", "x", "(", "a", "p", "i", ")", ":", " ", "r", "e", "s", "o",
      "l", "v", "e", " ", "b", "u", "g", ".", " ", "I", "t", " ", "a", "l",
      "s", "o">>

MsgFeatHead ==
    <<"f", "e", "a", "t", ":", " ">>

Cores ==
    { MsgFix, MsgScoped, MsgNoColon, MsgNoDescription, MsgNoType, MsgPeriod,
      <<>>, <<" ", "\t">>,
      MsgFeatHead \o Filler(MaxLength - Len(MsgFeatHead) - 1),
      MsgFeatHead \o Filler(MaxLength - Len(MsgFeatHead)),
      Filler(MaxLength + 1) }

\* A message as it is, in double quotes, and in single quotes.
Quoted(m) == {m, <<"\"">> \o m \o <<"\"">>, <<"'">> \o m \o <<"'">>}

\* The messages, each as it is and in quotes.
QuotedCores == UNION {Quoted(m) : m \in Cores}

\* What follows the message: nothing, or further lines.
BodyText ==
    <<"\n", "\n", "T", "h", "i", "s", " ", "i", "s", " ", "t", "h", "e",
      " ", "d", "e", "s", "c", "r", "i", "p", "t", "i", "o", "n", ":", " ",
      "m", "o", "r", "e">>

\* A second phrase, with a message of its own, after the first message.
MsgFeatX ==
    <<"f", "e", "a", "t", ":", " ", "a", "d", "d", " ", "x">>

SecondPhrase ==
    <<" ", "s", "h", "o", "u", "l", "d", " ", "b", "e", ":", " ", "\"">>
        \o MsgFeatX \o <<"\"">>

Tails == {<<>>, BodyText}

\* A message on a line of its own between two quotes.
QuoteBlock(m) == <<"\"", "\n">> \o m \o <<"\n", "\"">>

\* The length of the very long line of the tests (part_002:629).
LongLength == 1000

\* A very long line without a colon.
LongLine == Filler(LongLength)

\* The raw texts CleanCommitMessage is applied to.
CleanInputs ==
    {lead \o w \o q \o t \o trail :
        lead \in Pads, w \in Wrappers, q \in QuotedCores,
        t \in Tails, trail \in Pads}
    \cup {lead \o w \o q \o SecondPhrase \o trail :
              lead \in Pads, w \in Wrappers,
              q \in Quoted(MsgNoColon) \cup Quoted(MsgFix), trail \in Pads}
    \cup {lead \o LongLine \o trail : lead \in Pads, trail \in Pads}
    \cup {QuoteBlock(m) : m \in {MsgFix, MsgNoColon}}

\* The longest description of a message to validate.
MaxDesc == 72

\* The longest analysis text.
MaxInput == 3

TypeBogus ==
    <<"b", "o", "g", "u", "s">>

TypeCapital ==
    <<"F", "e", "a", "t">>

ScopeApi ==
    <<"(", "a", "p", "i", ")">>

ScopeWithColon ==
    <<"(", "s", "e", "r", "v", "i", "c", "e", ":", "a", "u", "t", "h", ")">>

\* A description that begins with a capital letter and ends with a period
\* (part_002:559-560).
DescCapitalPeriod ==
    <<" ", "A", "d", "d", " ", "n", "e", "w", " ", "f", "e", "a", "t", "u",
      "r", "e", ".">>

\* The messages ValidateCommitMessage is applied to: a type, registered or
\* not or missing; no scope, a scope, a scope with a colon in it, an
\* unclosed or an empty one; a colon or none; a description of every length
\* up to MaxDesc, or one with a capital letter and a period; as it is or
\* with white space around it.
ValidateInputs ==
    {lead \o type \o scope \o sep \o desc \o trail :
        type \in DOMAIN CommitRules \cup {TypeBogus, TypeCapital, <<>>},
        scope \in {<<>>, ScopeApi, ScopeWithColon, <<"(">>, <<"(", ")">>},
        sep \in {<<":">>, <<>>},
        desc \in {<<" ">> \o Filler(n) : n \in 0..MaxDesc} \cup {DescCapitalPeriod},
        <<lead, trail>> \in {<<<<>>, <<>>>>, <<<<" ">>, <<"\n">>>>}}

TestAnalysis ==
    <<"f", "e", "a", "t", "(", "s", "e", "r", "v", "i", "c", "e", ")", ":",
      " ", "a", "d", "d", " ", "n", "e", "w", " ", "e", "n", "d", "p", "o",
      "i", "n", "t">>

\* The analysis texts GetPrompt is applied to: the one of the tests
\* (part_002:506), and every text of letters, line feeds and percent signs
\* up to MaxInput characters, the empty one among them.
AnalysisInputs == SeqsUpTo({"a", "\n", "%"}, MaxInput) \cup {TestAnalysis}

(***************************************************************************)
(* The callers: each function is applied to every text of its inputs.      *)
(***************************************************************************)

\* No command runs: the function is called on its own.
NoCommand ==
    /\ pc = "none"
    /\ mode = "none"
    /\ provider = <<>>
    /\ log = <<>>
    /\ result = [format |-> "", args |-> <<>>]

InitClean ==
    /\ NoCommand
    /\ message \in CleanInputs
    /\ cleaned = <<>>
    /\ verdicts = <<>>
    /\ analysisInput = <<>>
    /\ prompts = <<>>

\* commitMessage = commitrules.CleanCommitMessage(commitMessage): the first
\* call cleans the raw text, a further call cleans the last result.
CallClean ==
    /\ Len(cleaned) < MaxCalls
    /\ cleaned' = Append(cleaned,
                         CleanCommitMessage(IF cleaned = <<>> THEN message
                                            ELSE cleaned[Len(cleaned)]))
    /\ UNCHANGED <<message, verdicts, analysisInput, prompts>>
    /\ UNCHANGED commandVars

NextClean == CallClean

SpecClean == InitClean /\ [][NextClean]_vars

InitValidate ==
    /\ NoCommand
    /\ message \in ValidateInputs
    /\ cleaned = <<>>
    /\ verdicts = <<>>
    /\ analysisInput = <<>>
    /\ prompts = <<>>

\* err := commitrules.ValidateCommitMessage(commitMessage), once.
CallValidate ==
    /\ verdicts = <<>>
    /\ \E r \in ValidateCommitMessage(message) : verdicts' = <<r>>
    /\ UNCHANGED <<message, cleaned, analysisInput, prompts>>
    /\ UNCHANGED commandVars

NextValidate == CallValidate

SpecValidate == InitValidate /\ [][NextValidate]_vars

InitPrompt ==
    /\ NoCommand
    /\ message = <<>>
    /\ cleaned = <<>>
    /\ verdicts = <<>>
    /\ analysisInput \in AnalysisInputs
    /\ prompts = <<>>

\* prompt := commitrules.GetPrompt(analysisInput), called again with the
\* same text.
CallGetPrompt ==
    /\ Len(prompts) < MaxCalls
    /\ \E p \in GetPrompt(analysisInput) : prompts' = Append(prompts, p)
    /\ UNCHANGED <<message, cleaned, verdicts, analysisInput>>
    /\ UNCHANGED commandVars

NextPrompt == CallGetPrompt

SpecPrompt == InitPrompt /\ [][NextPrompt]_vars

(***************************************************************************)
(* The analysis of the changes (main.go:619-630, 669-859).                 *)
(***************************************************************************)

\* The decimal digits, and the text %d formats a number to.
Digits == <<"0", "1", "2", "3", "4", "5", "6", "7", "8", "9">>

RECURSIVE Itoa(_)
Itoa(n) ==
    IF n < 10 THEN <<Digits[n + 1]>>
    ELSE Itoa(n \div 10) \o <<Digits[(n % 10) + 1]>>

\* strings.Split(s, c) for a one-character c.
RECURSIVE Split(_, _)
Split(s, c) ==
    LET i == Index(s, c)
    IN  IF i = 0 THEN <<s>>
        ELSE <<SubSeq(s, 1, i - 1)>> \o Split(SubSeq(s, i + 1, Len(s)), c)

\* strings.ContainsAny(s, chars).
ContainsAny(s, cs) == \E i \in DOMAIN s : s[i] \in cs

\* The characters validateFilePath refuses (main.go:675).
DangerousChars == {"&", "|", ";", "<", ">", "(", ")", "$", "`", "\"", "'"}

\* validateFilePath(path) (main.go:669-683).
validateFilePathNoTraversal(path) ==
    /\ ~ContainsAny(path, DangerousChars)
    /\ path # <<>>

validateFilePath(path) ==
    /\ ~Contains(path, <<".", ".">>)
    /\ ~ContainsAny(path, DangerousChars)
    /\ path # <<>>

\* The longest excerpt of a diff or of a file (main.go:721-722).
MaxExcerpt == 2000

\* output[:2000] when len(output) > 2000.
ExcerptTail(output) ==
    IF Len(output) > MaxExcerpt
        THEN SubSeq(output, Len(output) - MaxExcerpt + 1, Len(output))
    ELSE output

Excerpt(output) ==
    IF Len(output) > MaxExcerpt THEN SubSeq(output, 1, MaxExcerpt) ELSE output

\* The loop over the files (main.go:709-722, 778-785, 794-801, 842-855):
\* for a file with a valid path that os.Stat finds, the heading with its
\* name and the excerpt of its diff or content.  tree.stat is the set of
\* paths that exist, tree.text[path] the output of git diff or os.ReadFile.
RECURSIVE FileSections(_, _, _)
FileSections(files, tree, closing) ==
    IF files = <<>> THEN <<>>
    ELSE LET file == Head(files)
             section == IF validateFilePath(file) /\ file \in tree.stat
                        THEN <<"\n--- ">> \o file \o <<closing>>
                                 \o Excerpt(tree.text[file])
                        ELSE <<>>
         IN  section \o FileSections(Tail(files), tree, closing)

\* A command run: its words, its last argument or input, whether it
\* succeeded, and its output.
Run(cmd, arg, ok, out) ==
    [kind |-> "run", what |-> cmd, arg |-> arg, ok |-> ok, out |-> out]

\* os.Stat(file) (main.go:713, 780, 796, 846).
Stat == <<"os", "Stat">>

\* git diff --cached --stat (main.go:705).
DiffStat == <<"git", "diff", "--cached", "--stat">>

\* The command run for one file, before the name of the file: the diff of
\* a staged file (main.go:719), the diff of a modified file (main.go:806),
\* and the read of an untracked file (main.go:817, 849).
DiffCached == <<"git", "diff", "--cached", "--unified=3", "--">>

DiffWorking == <<"git", "diff", "--unified=3">>

ReadFile == <<"os", "ReadFile">>

\* What the loop over the files runs (main.go:709-722, 778-785, 794-801,
\* 842-855): for a file with a valid path, os.Stat, and when it finds the
\* file, the command with the path as its last argument.
RECURSIVE FileRuns(_, _, _)
FileRuns(files, tree, command) ==
    IF files = <<>> THEN <<>>
    ELSE LET file == Head(files)
             runs == IF ~validateFilePath(file) THEN <<>>
                     ELSE IF file \notin tree.stat
                         THEN <<Run(Stat, file, FALSE, <<>>)>>
                     ELSE <<Run(Stat, file, TRUE, <<>>),
                            Run(command, file, TRUE, tree.text[file])>>
         IN  runs \o FileRuns(Tail(files), tree, command)

\* The errors of the analysis (main.go:472-479).
ErrNotGitRepo == "not in a git repository"

ErrNoChangesFound == "no changes found to analyze"

ErrNoStagedFiles == "no staged files found"

ErrNoUntrackedFiles == "no untracked files found"

\* analyzeStagedChanges (main.go:685-729).  listing is the result of
\* git diff --cached --name-only, stat the output of git diff --cached --stat.
analyzeStagedChanges(listing, stat, tree) ==
    LET stagedFiles == TrimSpace(listing.out)
        files == Split(stagedFiles, "\n")
    IN  IF ~listing.ok
            THEN [text |-> <<>>,
                  err |-> Sprintf("failed to get staged files: %w", <<>>)]
        ELSE IF stagedFiles = <<>>
            THEN [text |-> <<>>, err |-> Sprintf(ErrNoStagedFiles, <<>>)]
        ELSE [text |-> <<"=== STAGED CHANGES ANALYSIS ===\n", "Files changed: ">>
                           \o Itoa(Len(files)) \o <<"\n", "Files: ">>
                           \o Join(files, <<" ">>) \o <<"\n\n", "=== DIFF ===\n">>
                           \o stat \o <<"\n=== DETAILED CHANGES ===\n">>
                           \o FileSections(files, tree, " ---\n"),
              err |-> Nil]

\* addModifiedFilesToAnalysis (main.go:771-786).
addModifiedFilesToAnalysis(modifiedFiles, tree) ==
    LET files == Split(modifiedFiles, "\n")
    IN  <<"Modified files: ">> \o Itoa(Len(files))
            \o <<"\n", "=== MODIFIED FILES ===\n">>
            \o Join(files, <<" ">>) \o <<"\n\n", "=== MODIFICATIONS ===\n">>
            \o FileSections(files, tree, " ---\n")

\* addUntrackedFilesToAnalysis (main.go:788-802).
addUntrackedFilesToAnalysis(untrackedFiles, tree) ==
    LET files == Split(untrackedFiles, "\n")
    IN  <<"\n=== UNTRACKED FILES ===\n">>
            \o Join(files, <<" ">>) \o <<"\n\n", "=== FILE CONTENTS ===\n">>
            \o FileSections(files, tree, " (new) ---\n")

analyzeAllChangesUnchecked(modified, untracked, tree) ==
    LET modifiedFiles == TrimSpace(modified.out)
        untrackedFiles == TrimSpace(untracked.out)
    IN  [text |-> <<"=== ALL CHANGES ANALYSIS ===\n">>
                  \o (IF modifiedFiles # <<>>
                      THEN addModifiedFilesToAnalysis(modifiedFiles, tree)
                      ELSE <<>>)
                  \o (IF untrackedFiles # <<>>
                      THEN addUntrackedFilesToAnalysis(untrackedFiles, tree)
                      ELSE <<>>),
         err |-> Nil]

\* analyzeAllChanges with getModifiedAndUntrackedFiles (main.go:731-769).
\* modified is the result of git diff --name-only, untracked the one of
\* git ls-files --others --exclude-standard.
analyzeAllChanges(modified, untracked, tree) ==
    LET modifiedFiles == TrimSpace(modified.out)
        untrackedFiles == TrimSpace(untracked.out)
    IN  IF ~modified.ok
            THEN [text |-> <<>>,
                  err |-> Sprintf("failed to get modified files: %w", <<>>)]
        ELSE IF ~untracked.ok
            THEN [text |-> <<>>,
                  err |-> Sprintf("failed to get untracked files: %w", <<>>)]
        ELSE IF modifiedFiles = <<>> /\ untrackedFiles = <<>>
            THEN [text |-> <<>>, err |-> Sprintf(ErrNoChangesFound, <<>>)]
        ELSE [text |-> <<"=== ALL CHANGES ANALYSIS ===\n">>
                  \o (IF modifiedFiles # <<>>
                      THEN addModifiedFilesToAnalysis(modifiedFiles, tree)
                      ELSE <<>>)
                  \o (IF untrackedFiles # <<>>
                      THEN addUntrackedFilesToAnalysis(untrackedFiles, tree)
                      ELSE <<>>),
              err |-> Nil]

\* analyzeUntrackedFiles (main.go:824-859).
analyzeUntrackedFiles(listing, tree) ==
    LET untrackedFiles == TrimSpace(listing.out)
        files == Split(untrackedFiles, "\n")
    IN  IF ~listing.ok
            THEN [text |-> <<>>,
                  err |-> Sprintf("failed to get untracked files: %w", <<>>)]
        ELSE IF untrackedFiles = <<>>
            THEN [text |-> <<>>, err |-> Sprintf(ErrNoUntrackedFiles, <<>>)]
        ELSE [text |-> <<"=== UNTRACKED FILES ANALYSIS ===\n", "Files: ">>
                           \o Itoa(Len(files)) \o <<"\n">>
                           \o Join(files, <<" ">>) \o <<"\n\n", "=== FILE CONTENTS ===\n">>
                           \o FileSections(files, tree, " ---\n"),
              err |-> Nil]

\* The git commands that list the files of a mode (main.go:687, 756, 762,
\* 825).
ListingCommands ==
    [staged |-> << <<"git", "diff", "--cached", "--name-only">> >>,
     all |-> << <<"git", "diff", "--name-only">>,
                <<"git", "ls-files", "--others", "--exclude-standard">> >>,
     untracked |-> << <<"git", "ls-files", "--others", "--exclude-standard">> >>]

\* getAnalysisInput(mode) (main.go:619-630) for the results of the listing
\* commands of the mode, in the order they are run.
getAnalysisInput(m, listings, stat, tree) ==
    IF m = "staged" THEN analyzeStagedChanges(listings[1], stat, tree)
    ELSE IF m = "all" THEN analyzeAllChanges(listings[1], listings[2], tree)
    ELSE IF m = "untracked" THEN analyzeUntrackedFiles(listings[1], tree)
    ELSE [text |-> <<>>, err |-> Sprintf("%w: unknown mode: %s", <<ErrNoChangesFound, m>>)]

\* The commands getAnalysisInput(mode) runs (main.go:619-630, 685-859), in
\* the order it runs them: the listing commands, and when they name files,
\* what is run for each file.
getAnalysisInputRuns(m, listings, stat, tree) ==
    LET listed == [i \in DOMAIN listings |->
                      Run(ListingCommands[m][i], <<>>, listings[i].ok, listings[i].out)]
        names == [i \in DOMAIN listings |-> TrimSpace(listings[i].out)]
    IN  IF ~listings[1].ok THEN <<listed[1]>>
        ELSE IF m = "staged"
            THEN listed
                     \o (IF names[1] = <<>> THEN <<>>
                         ELSE <<Run(DiffStat, <<>>, TRUE, stat)>>
                                  \o FileRuns(Split(names[1], "\n"), tree, DiffCached))
        ELSE IF m = "all"
            THEN listed
                     \o (IF ~listings[2].ok THEN <<>>
                         ELSE (IF names[1] = <<>> THEN <<>>
                               ELSE FileRuns(Split(names[1], "\n"), tree, DiffWorking))
                              \o (IF names[2] = <<>> THEN <<>>
                                  ELSE FileRuns(Split(names[2], "\n"), tree, ReadFile)))
        ELSE listed
                 \o (IF names[1] = <<>> THEN <<>>
                     ELSE FileRuns(Split(names[1], "\n"), tree, ReadFile))

\* The modes of the commands (main.go:528-574).
Modes == {"staged", "all", "untracked"}

\* The output of git diff --cached --stat.
StatOutput == <<" ", "1", " ", "f", "i", "l", "e", "\n">>

\* The most file names in the listings of one analysis.
MaxListed == 2

\* File names a listing can have: two files that exist, one that is gone,
\* a path that leaves the repository, and one with a shell character.
PathA == <<"a", ".", "g", "o">>

PathB == <<"b", ".", "g", "o">>

PathGone == <<"g", "o", "n", "e", ".", "g", "o">>

PathTraversal == <<".", ".", "/", "x">>

PathShell == <<"a", ";", "b">>

Paths == {PathA, PathB, PathGone, PathTraversal, PathShell}

\* The output of a listing command that names the files, one on a line.
ListingText(names) ==
    Join([i \in DOMAIN names |-> names[i] \o <<"\n">>], <<>>)

\* A listing with an empty line between two names.
ListingWithEmptyLine == PathA \o <<"\n", "\n">> \o PathB \o <<"\n">>

\* The results of the listing commands of a mode: a command fails, or it
\* names files; together they name up to MaxListed files, or they are the
\* listing with the empty line.
ListingFailed == [ok |-> FALSE, out |-> <<>>]

Listed(names) == [ok |-> TRUE, out |-> ListingText(names)]

AnalyzeListings(m) ==
    IF m = "all"
    THEN {<<ListingFailed, ListingFailed>>}
             \cup {<<Listed(a), ListingFailed>> : a \in SeqsUpTo(Paths, 1)}
             \cup UNION {{<<Listed(SubSeq(names, 1, k)),
                                Listed(SubSeq(names, k + 1, Len(names)))>> :
                                 k \in 0..Len(names)} :
                             names \in SeqsUpTo(Paths, MaxListed)}
             \cup {<<[ok |-> TRUE, out |-> ListingWithEmptyLine], Listed(<<PathA>>)>>,
                   <<Listed(<<PathB>>), [ok |-> TRUE, out |-> ListingWithEmptyLine]>>}
    ELSE {<<ListingFailed>>, <<[ok |-> TRUE, out |-> ListingWithEmptyLine]>>}
             \cup {<<Listed(names)>> : names \in SeqsUpTo(Paths, MaxListed)}

\* An output of n bytes of git diff or os.ReadFile.
Content(n) == [i \in 1..n |-> Digits[(i % 10) + 1]]

\* The lengths of the output for a file: none, and around the limit of the
\* excerpt.
ContentLengths == {0, MaxExcerpt - 1, MaxExcerpt, MaxExcerpt + 1}

\* The working trees: every path but the gone one exists; the output for
\* a.go has la bytes and the one for b.go has lb bytes.
AnalyzeTrees ==
    {[stat |-> Paths \ {PathGone},
      text |-> [f \in Paths |->
                   IF f = PathA THEN Content(la)
                   ELSE IF f = PathB THEN Content(lb)
                   ELSE Content(1)]] :
        la \in ContentLengths, lb \in ContentLengths}

\* getAnalysisInput(mode) called on its own (main.go:597).
InitAnalyze ==
    /\ pc = "getAnalysisInput"
    /\ mode \in Modes
    /\ provider = <<>>
    /\ log = <<>>
    /\ result = Nil
    /\ message = <<>>
    /\ cleaned = <<>>
    /\ verdicts = <<>>
    /\ analysisInput = <<>>
    /\ prompts = <<>>

CallGetAnalysisInput ==
    /\ pc = "getAnalysisInput"
    /\ \E listings \in AnalyzeListings(mode), tree \in AnalyzeTrees :
        LET analysis == getAnalysisInput(mode, listings, StatOutput, tree)
        IN  /\ log' = getAnalysisInputRuns(mode, listings, StatOutput, tree)
            /\ analysisInput' = analysis.text
            /\ result' = analysis.err
    /\ pc' = "returned"
    /\ UNCHANGED <<mode, provider, message, cleaned, verdicts, prompts>>

NextAnalyze == CallGetAnalysisInput

SpecAnalyze == InitAnalyze /\ [][NextAnalyze]_vars

(***************************************************************************)
(* The provider call (main.go:632-638, 861-897).                           *)
(***************************************************************************)

ProviderClaude ==
    <<"c", "l", "a", "u", "d", "e">>

\* getProvider (main.go:632-638): the value of the flag, claude when empty.
getProvider(flag) == IF flag = <<>> THEN ProviderClaude ELSE flag

\* The environment added to the command of the case "claude"
\* (main.go:871-875).
ClaudeEnv ==
    <<"ANTHROPIC_BASE_URL", "ANTHROPIC_API_KEY", "ANTHROPIC_MODEL">>

\* The switch of callAIAPI (main.go:867-887): the command that is run for a
\* provider name, and the environment added to it.  The default case runs
\* the name itself.
ProviderCommand(name) ==
    IF name = ProviderClaude
        THEN [name |-> ProviderClaude, env |-> ClaudeEnv]
    ELSE [name |-> name, env |-> <<>>]

(***************************************************************************)
(* Confirmation and commit (main.go:646-661, 900-918).                      *)
(***************************************************************************)

\* The characters fmt.Scanln skips before and after the word it reads.
Blank == {" ", "\t", "\r"}

\* fmt.Scanln(&response) on the text left on standard input: it skips the
\* blanks, reads the word up to the next blank, line feed or end of input,
\* and wants only blanks up to the line feed or the end of input.  The word
\* is stored also when the rest of the line makes the call fail.
Scanln(stdin) ==
    LET from == RunEndIn(stdin, 1, Blank)
        to == RunEndNotIn(stdin, from, Blank \cup {"\n"})
        rest == RunEndIn(stdin, to, Blank)
    IN  IF from > Len(stdin) THEN [response |-> <<>>, err |-> "unexpected EOF"]
        ELSE IF stdin[from] = "\n"
            THEN [response |-> <<>>, err |-> "unexpected newline"]
        ELSE IF rest <= Len(stdin) /\ stdin[rest] # "\n"
            THEN [response |-> SubSeq(stdin, from, to - 1), err |-> "expected newline"]
        ELSE [response |-> SubSeq(stdin, from, to - 1), err |-> ""]

\* The upper-case letters of the answers and their lower-case letters.
LowerCase ==
    [c \in {"Y", "E", "S", "N", "O"} |->
        IF c = "Y" THEN "y" ELSE IF c = "E" THEN "e" ELSE IF c = "S" THEN "s"
        ELSE IF c = "N" THEN "n" ELSE "o"]

\* strings.ToLower(s).
ToLower(s) ==
    [i \in DOMAIN s |-> IF s[i] \in DOMAIN LowerCase THEN LowerCase[s[i]] ELSE s[i]]

\* A text printed: the format and its argument.
Printed(format, arg) ==
    [kind |-> "print", what |-> <<format>>, arg |-> arg, ok |-> TRUE, out |-> <<>>]

\* A line read from standard input: the text that was there, whether the
\* read succeeded, and the word read.
Scanned(stdin, scan) ==
    [kind |-> "scan", what |-> <<"stdin">>, arg |-> stdin,
     ok |-> scan.err = "", out |-> scan.response]

\* confirmed (main.go:657): the answer, in lower case, is y or yes.
ConfirmedUnlessNo(response) ==
    ToLower(response) \notin {<<"n">>, <<"n", "o">>}

Confirmed(response) ==
    ToLower(response) \in {<<"y">>, <<"y", "e", "s">>}

\* confirmCommit(commitMessage) (main.go:646-661) with stdin on standard
\* input: what it prints and reads, and what it returns.
confirmCommit(commitMessage, stdin) ==
    LET scan == Scanln(stdin)
        response == IF scan.err # "" THEN <<>> ELSE scan.response
        confirmed == Confirmed(response)
    IN  [confirmed |-> confirmed,
         log |-> <<Printed("Generated commit message:\n\"%s\"\n\n", commitMessage),
                   Printed("Do you want to use this commit message? [y/N] ", <<>>),
                   Scanned(stdin, scan)>>
                 \o (IF confirmed
                     THEN <<Printed("Committed successfully!\n", <<>>)>>
                     ELSE <<>>)]

GitAdd == <<"git", "add", ".">>

GitCommit == <<"git", "commit", "-m">>

\* executeCommit(mode, commitMessage) (main.go:900-918), where git add
\* succeeds or not (addOk) and git commit succeeds or not (commitOk): the
\* commands it runs and the error it returns.
executeCommitAlwaysStaging(m, commitMessage, addOk, commitOk) ==
    IF ~addOk
        THEN [log |-> <<Run(GitAdd, <<>>, FALSE, <<>>)>>,
              err |-> Sprintf("failed to stage changes: %w", <<>>)]
    ELSE [log |-> <<Run(GitAdd, <<>>, TRUE, <<>>),
                    Run(GitCommit, commitMessage, commitOk, <<>>)>>,
          err |-> IF commitOk THEN Nil ELSE Sprintf("failed to commit: %w", <<>>)]

executeCommit(m, commitMessage, addOk, commitOk) ==
    IF m \in {"all", "untracked"} /\ ~addOk
        THEN [log |-> <<Run(GitAdd, <<>>, FALSE, <<>>)>>,
              err |-> Sprintf("failed to stage changes: %w", <<>>)]
    ELSE [log |-> (IF m \in {"all", "untracked"}
                   THEN <<Run(GitAdd, <<>>, TRUE, <<>>)>> ELSE <<>>)
                      \o <<Run(GitCommit, commitMessage, commitOk, <<>>)>>,
          err |-> IF commitOk THEN Nil ELSE Sprintf("failed to commit: %w", <<>>)]

(***************************************************************************)
(* The command generateCommitMessage(mode) (main.go:591-617) and what it   *)
(* meets: the repository, the provider, the user.                          *)
(***************************************************************************)


\* The most files a listing names.
MaxFiles == 2

\* The name of the i-th file.
FileName(i) == <<"f">> \o Itoa(i) \o <<".", "g", "o">>

\* The output of a listing command that names n files, one on a line.
ListingOf(n) ==
    Join([i \in 1..n |-> FileName(i) \o <<"\n">>], <<>>)

\* The results a listing command can have: it fails, or it names up to
\* MaxFiles files.
Listings ==
    {[ok |-> FALSE, out |-> <<>>]}
        \cup {[ok |-> TRUE, out |-> ListingOf(n)] : n \in 0..MaxFiles}

\* The working tree: every file named exists, and its diff or content is
\* one added line.
Tree ==
    [stat |-> {FileName(i) : i \in 1..(MaxFiles + 1)},
     text |-> [f \in {FileName(i) : i \in 1..(MaxFiles + 1)} |-> <<"+", "x", "\n">>]]


\* The values of the flag --provider: not set, the default, a variant of
\* claude, another supported provider, and an unsupported one
\* (part_002:470-490, TestProviderValidation).
ProviderClaude2 ==
    <<"c", "l", "a", "u", "d", "e", "-", "2">>

ProviderGemini ==
    <<"g", "e", "m", "i", "n", "i">>

ProviderOpenAI ==
    <<"o", "p", "e", "n", "a", "i">>

ProviderFlags ==
    {<<>>, ProviderClaude, ProviderClaude2, ProviderGemini, ProviderOpenAI}

\* What the provider's command writes: a message, a message in quotes, a
\* text without a colon, a message of an unknown type, a message over the
\* recommended and one over the hard limit, a message wrapped in prose, a
\* text without a colon followed by a body, a long line without a colon,
\* and nothing.
ProviderTexts ==
    { MsgFix \o <<"\n">>,
      <<"\"">> \o MsgFix \o <<"\"", "\n">>,
      MsgNoColon \o <<"\n">>,
      TypeBogus \o <<":", " ", "x">>,
      MsgFeatHead \o Filler(RecommendedLength),
      MsgFeatHead \o Filler(MaxLength),
      LongProse \o IntroShouldBe \o <<"\"">> \o MsgFix \o <<"\"">>,
      MsgNoColon \o BodyText,
      Filler(MaxLength + 1),
      <<>> }

\* The results the provider's command can have: it fails (it is not
\* installed, or exits with an error), or it writes a text.
ProviderResults ==
    {[ok |-> FALSE, out |-> <<>>]}
        \cup {[ok |-> TRUE, out |-> t] : t \in ProviderTexts}

\* What the user types at the prompt: nothing (end of input), an empty
\* line, y and yes in either case, with blanks, without a line feed, other
\* words, and a line of two words.
Answers ==
    { <<>>, <<"\n">>,
      <<"y", "\n">>, <<"Y", "\n">>, <<"y">>, <<" ", "y", " ", "\n">>,
      <<"y", "e", "s", "\n">>, <<"Y", "E", "S", "\n">>, <<"Y", "e", "s", "\n">>,
      <<"n", "\n">>, <<"N", "o", "\n">>, <<"y", "e", "\n">>,
      <<"y", "e", "s", "s", "\n">>, <<"y", " ", "n", "\n">> }

Init ==
    /\ pc = "isGitRepo"
    /\ mode \in Modes
    /\ provider = <<>>
    /\ log = <<>>
    /\ result = Nil
    /\ message = <<>>
    /\ cleaned = <<>>
    /\ verdicts = <<>>
    /\ analysisInput = <<>>
    /\ prompts = <<>>

\* if !isGitRepo() { return ErrNotGitRepo } (main.go:593-595, 663-666).
IsGitRepo ==
    /\ pc = "isGitRepo"
    /\ \E ok \in BOOLEAN :
        /\ log' = Append(log, Run(<<"git", "rev-parse", "--git-dir">>, <<>>, ok, <<>>))
        /\ pc' = IF ok THEN "getAnalysisInput" ELSE "returned"
        /\ result' = IF ok THEN Nil ELSE Sprintf(ErrNotGitRepo, <<>>)
    /\ UNCHANGED <<mode, provider, message, cleaned, verdicts, analysisInput, prompts>>

\* analysisInput, err := getAnalysisInput(mode); if err != nil { return err }
\* (main.go:597-600).  The second listing command of the mode all is not run
\* when the first one fails.
GetAnalysisInput ==
    /\ pc = "getAnalysisInput"
    /\ \E listings \in [1..Len(ListingCommands[mode]) -> Listings] :
        LET analysis == getAnalysisInput(mode, listings, StatOutput, Tree)
            ran == IF listings[1].ok THEN Len(listings) ELSE 1
        IN  /\ \A i \in (ran + 1)..Len(listings) : listings[i] = listings[1]
            /\ log' = log \o getAnalysisInputRuns(mode, listings, StatOutput, Tree)
            /\ analysisInput' = analysis.text
            /\ pc' = IF analysis.err = Nil THEN "callAIAPI" ELSE "returned"
            /\ result' = analysis.err
    /\ UNCHANGED <<mode, provider, message, cleaned, verdicts, prompts>>

\* provider := getProvider(cliContext); commitMessage, err :=
\* callAIAPI(analysisInput, provider); if err != nil { return ... }
\* (main.go:602-606, 861-897): the prompt is built, the command of the
\* provider is run with the prompt on its input, and its output, trimmed,
\* is the raw message.
CallAIAPIThenClean ==
    /\ pc = "callAIAPI"
    /\ \E flag \in ProviderFlags, prompt \in GetPrompt(analysisInput),
          res \in ProviderResults :
        LET cmd == ProviderCommand(getProvider(flag))
        IN  /\ provider' = getProvider(flag)
            /\ prompts' = Append(prompts, prompt)
            /\ log' = Append(log, Run(<<"exec">> \o cmd.env, cmd.name, res.ok, res.out))
            /\ message' = TrimSpace(res.out)
            /\ pc' = "CleanCommitMessage"
            /\ result' = IF res.ok THEN Nil
                         ELSE Sprintf("failed to generate commit message: %w",
                                      <<"failed to call %s API: %w">>)
    /\ UNCHANGED <<mode, cleaned, verdicts, analysisInput>>

CallAIAPI ==
    /\ pc = "callAIAPI"
    /\ \E flag \in ProviderFlags, prompt \in GetPrompt(analysisInput),
          res \in ProviderResults :
        LET cmd == ProviderCommand(getProvider(flag))
        IN  /\ provider' = getProvider(flag)
            /\ prompts' = Append(prompts, prompt)
            /\ log' = Append(log, Run(<<"exec">> \o cmd.env, cmd.name, res.ok, res.out))
            /\ message' = IF res.ok THEN TrimSpace(res.out) ELSE <<>>
            /\ pc' = IF res.ok THEN "CleanCommitMessage" ELSE "returned"
            /\ result' = IF res.ok THEN Nil
                         ELSE Sprintf("failed to generate commit message: %w",
                                      <<"failed to call %s API: %w">>)
    /\ UNCHANGED <<mode, cleaned, verdicts, analysisInput>>

\* commitMessage = commitrules.CleanCommitMessage(commitMessage)
\* (main.go:608).
Clean ==
    /\ pc = "CleanCommitMessage"
    /\ cleaned' = Append(cleaned, CleanCommitMessage(message))
    /\ pc' = "validateAndShowWarning"
    /\ UNCHANGED <<mode, provider, log, result, message, verdicts, analysisInput, prompts>>

\* validateAndShowWarning(commitMessage) (main.go:609, 640-644): the error
\* of the validation is printed as a warning, and so is what the validation
\* prints itself.
ValidateAndShowWarningRaw ==
    /\ pc = "validateAndShowWarning"
    /\ \E r \in ValidateCommitMessage(message) :
        /\ verdicts' = Append(verdicts, r)
        /\ log' = log
                    \o [i \in DOMAIN r.out |-> Printed(r.out[i].format, <<>>)]
                    \o (IF r.err # Nil
                        THEN <<Printed("Warning: %s\n", <<>>)>> ELSE <<>>)
    /\ pc' = "confirmCommit"
    /\ UNCHANGED <<mode, provider, result, message, cleaned, analysisInput, prompts>>

ValidateAndShowWarning ==
    /\ pc = "validateAndShowWarning"
    /\ \E r \in ValidateCommitMessage(cleaned[Len(cleaned)]) :
        /\ verdicts' = Append(verdicts, r)
        /\ log' = log
                    \o [i \in DOMAIN r.out |-> Printed(r.out[i].format, <<>>)]
                    \o (IF r.err # Nil
                        THEN <<Printed("Warning: %s\n", <<>>)>> ELSE <<>>)
    /\ pc' = "confirmCommit"
    /\ UNCHANGED <<mode, provider, result, message, cleaned, analysisInput, prompts>>

\* if confirmCommit(commitMessage) { return executeCommit(...) };
\* fmt.Println("Commit cancelled."); return nil (main.go:611-615, 646-661).
ConfirmCommit ==
    /\ pc = "confirmCommit"
    /\ \E stdin \in Answers :
        LET c == confirmCommit(cleaned[Len(cleaned)], stdin)
        IN  /\ log' = log \o c.log
                        \o (IF c.confirmed THEN <<>>
                            ELSE <<Printed("Commit cancelled.\n", <<>>)>>)
            /\ pc' = IF c.confirmed THEN "executeCommit" ELSE "returned"
    /\ UNCHANGED <<mode, provider, result, message, cleaned, verdicts, analysisInput, prompts>>

\* return executeCommit(mode, commitMessage) (main.go:612, 900-918).
ExecuteCommit ==
    /\ pc = "executeCommit"
    /\ \E addOk \in BOOLEAN, commitOk \in BOOLEAN :
        LET e == executeCommit(mode, cleaned[Len(cleaned)], addOk, commitOk)
        IN  /\ log' = log \o e.log
            /\ result' = e.err
    /\ pc' = "returned"
    /\ UNCHANGED <<mode, provider, message, cleaned, verdicts, analysisInput, prompts>>

Next ==
    \/ IsGitRepo
    \/ GetAnalysisInput
    \/ CallAIAPI
    \/ Clean
    \/ ValidateAndShowWarning
    \/ ConfirmCommit
    \/ ExecuteCommit

Spec == Init /\ [][Next]_vars

(***************************************************************************)
(* Properties.                                                             *)
(***************************************************************************)

\* The text has a colon.
HasColon(m) == \E i \in DOMAIN m : m[i] = ":"

\* The type token of a message with a colon: of the text before the first
\* colon, without the white space around it, the part before the first "(".
TypeToken(m) ==
    LET pre == TrimSpace(SubSeq(m, 1, Min({i \in DOMAIN m : m[i] = ":"}) - 1))
        paren == {i \in DOMAIN pre : pre[i] = "("}
    IN  IF paren = {} THEN pre ELSE SubSeq(pre, 1, Min(paren) - 1)

\* The seven registered types.
RegisteredTypes ==
    { <<"f", "e", "a", "t">>, <<"f", "i", "x">>, <<"d", "o", "c", "s">>,
      <<"s", "t", "y", "l", "e">>, <<"r", "e", "f", "a", "c", "t", "o", "r">>,
      <<"t", "e", "s", "t">>, <<"c", "h", "o", "r", "e">> }

\* C2: for a trimmed message with a colon and a registered type, a length
\* over 72 fails with the too-long error that reports the length; a length
\* of 51 to 72 succeeds and prints the length warning; a length of 50 or
\* less succeeds and prints nothing.
C2_LengthOutcomes ==
    \A i \in DOMAIN verdicts :
        LET m == TrimSpace(message)
            r == verdicts[i]
        IN  (HasColon(m) /\ TypeToken(m) \in RegisteredTypes) =>
                /\ Len(m) > 72 =>
                       /\ r.err = [format |-> FormatTooLong, args |-> <<Len(m)>>]
                       /\ r.out = <<>>
                /\ (Len(m) >= 51 /\ Len(m) <= 72) =>
                       /\ r.err = Nil
                       /\ r.out = <<[format |-> FormatWarning, args |-> <<Len(m)>>]>>
                /\ Len(m) <= 50 =>
                       /\ r.err = Nil
                       /\ r.out = <<>>

\* C2 happens: a message of a registered type and of length 72 has passed
\* with the warning.
C2_Witness ==
    /\ verdicts # <<>>
    /\ HasColon(message)
    /\ TypeToken(TrimSpace(message)) \in RegisteredTypes
    /\ Len(TrimSpace(message)) = 72
    /\ verdicts[1].err = Nil
    /\ Len(verdicts[1].out) = 1

\* C3: a message with a colon whose type token is not registered fails with
\* the invalid-type error, which names the token and every registered type.
C3_InvalidType ==
    \A i \in DOMAIN verdicts :
        LET m == TrimSpace(message)
            r == verdicts[i]
        IN  (HasColon(m) /\ TypeToken(m) \notin RegisteredTypes) =>
                /\ r.err.format = FormatInvalidType
                /\ r.err.args[1] = TypeToken(m)
                /\ \A t \in RegisteredTypes : Contains(r.err.args[2], t)
                /\ r.out = <<>>

\* C3 happens: a message of type bogus has been rejected.
C3_Witness ==
    /\ verdicts # <<>>
    /\ HasColon(message)
    /\ TypeToken(TrimSpace(message)) = TypeBogus
    /\ verdicts[1].err.format = FormatInvalidType

\* C4: a message without a colon fails with the malformed-format error,
\* whatever its length and content.
C4_MalformedFormat ==
    \A i \in DOMAIN verdicts :
        ~HasColon(message) =>
            /\ verdicts[i].err = [format |-> FormatMalformed, args |-> <<>>]
            /\ verdicts[i].out = <<>>

\* C4 happens: a message without a colon that is longer than 72 characters
\* and begins with a registered type has been rejected as malformed.
C4_Witness ==
    /\ verdicts # <<>>
    /\ ~HasColon(message)
    /\ Len(TrimSpace(message)) > 72
    /\ \E t \in RegisteredTypes : SubSeq(message, 1, Len(t)) = t
    /\ verdicts[1].err.format = FormatMalformed

\* The fixed elements of the prompt the tests look for.
RequiredElements ==
    { "type(scope): description",
      "Maximum 50 characters total",
      "CRITICAL: Respond with ONLY the commit message",
      "Git diff to analyze:" }

\* C5: for every analysis text, the empty one included, the prompt names
\* every registered type, holds the fixed elements of the template, and
\* ends with the analysis text.
C5_PromptContents ==
    \A i \in DOMAIN prompts :
        /\ \A t \in RegisteredTypes : Contains(prompts[i], t)
        /\ \A e \in RequiredElements : Contains(prompts[i], <<e>>)
        /\ HasSuffix(prompts[i], analysisInput)

\* C5 happens: a prompt has been built for the empty analysis text; it ends
\* with the line feed after the heading of the diff.
C5_Witness ==
    /\ prompts # <<>>
    /\ analysisInput = <<>>
    /\ HasSuffix(prompts[1], <<"Git diff to analyze:", "\n">>)

\* C6: two calls of GetPrompt with the same analysis text return the same
\* string, the order of the types included.
C6_Deterministic ==
    \A i, j \in DOMAIN prompts : prompts[i] = prompts[j]

\* A well-formed line: it has a colon, there is text other than white space
\* before its first colon and after it, and it is shorter than 72
\* characters.
WellFormed(l) ==
    /\ HasColon(l)
    /\ LET c == Min({i \in DOMAIN l : l[i] = ":"})
       IN  /\ \E i \in 1..(c - 1) : l[i] \notin Space
           /\ \E i \in (c + 1)..Len(l) : l[i] \notin Space
    /\ Len(l) < 72

\* A message of the form type: description: one well-formed line that
\* neither begins nor ends with a quote or white space.
PlainMessage(m) ==
    /\ WellFormed(m)
    /\ \A i \in DOMAIN m : m[i] # "\n"
    /\ m[1] \notin Quotes \cup Space
    /\ m[Len(m)] \notin Quotes \cup Space

\* The explanatory prose before a message: it ends with one of the phrases.
Intros == {IntroShouldBe, IntroCommitMessage, IntroMessageIs, IntroMessage}

\* C1: a line of prose with one of the phrases, followed by a conventional
\* message m, in double quotes or not, is cleaned to m.
C1_PatternExtraction ==
    \A prose \in {<<>>, LongProse}, intro \in Intros,
       m \in {MsgFix, MsgScoped}, q \in {<<>>, <<"\"">>} :
        (cleaned # <<>> /\ message = prose \o intro \o q \o m \o q) =>
            cleaned[1] = m

\* C7: a message of the form type: description in one pair of double quotes,
\* or in one pair of single quotes, is cleaned to the message.
C7_QuotesStripped ==
    \A q \in Quotes :
        ( /\ cleaned # <<>>
          /\ Len(message) > 2
          /\ message[1] = q
          /\ message[Len(message)] = q
          /\ PlainMessage(SubSeq(message, 2, Len(message) - 1)) ) =>
            cleaned[1] = SubSeq(message, 2, Len(message) - 1)

\* C7 happens: a message in single quotes has been cleaned to the message.
C7_Witness ==
    /\ cleaned # <<>>
    /\ message = <<"'">> \o MsgScoped \o <<"'">>
    /\ cleaned[1] = MsgScoped

\* The first line of the text that is not blank.
FirstNonBlankLine(raw) ==
    LET first == Min({i \in DOMAIN raw : raw[i] \notin Space})
        before == {i \in 1..first : raw[i] = "\n"}
        after == {i \in first..Len(raw) : raw[i] = "\n"}
    IN  SubSeq(raw,
               IF before = {} THEN 1 ELSE Max(before) + 1,
               IF after = {} THEN Len(raw) ELSE Min(after) - 1)

\* C8: of a text of several lines that neither begins nor ends with a quote
\* and whose first non-blank line is well-formed, the result is that line
\* without the white space around it.
C8_FirstLineWins ==
    ( /\ cleaned # <<>>
      /\ \E i \in DOMAIN message : message[i] = "\n"
      /\ \E i \in DOMAIN message : message[i] \notin Space
      /\ message[1] \notin Quotes
      /\ message[Len(message)] \notin Quotes
      /\ WellFormed(TrimSpace(FirstNonBlankLine(message))) ) =>
        cleaned[1] = TrimSpace(FirstNonBlankLine(message))

\* C8 happens: a message followed by a body, after a blank line, has been
\* cleaned to the message.
C8_Witness ==
    /\ cleaned # <<>>
    /\ message = <<"\n">> \o MsgFix \o BodyText
    /\ cleaned[1] = MsgFix

\* C9: the empty text, and a text of white space only, is cleaned to the
\* empty text.
C9_BlankToEmpty ==
    (cleaned # <<>> /\ \A i \in DOMAIN message : message[i] \in Space) =>
        cleaned[1] = <<>>

\* C9 happens: a text of several white-space characters has been cleaned.
C9_Witness ==
    /\ cleaned # <<>>
    /\ Len(message) > 1
    /\ \A i \in DOMAIN message : message[i] \in Space
    /\ cleaned[1] = <<>>

\* C10: cleaning the result of a cleaning changes nothing.
C10_Idempotent ==
    \A i \in DOMAIN cleaned : cleaned[i] = cleaned[1]

\* The text without the characters of cs at its two ends.
Stripped(s, cs) ==
    IF \A i \in DOMAIN s : s[i] \in cs THEN <<>>
    ELSE LET first == CHOOSE i \in DOMAIN s :
                          s[i] \notin cs /\ \A j \in 1..(i - 1) : s[j] \in cs
             last == CHOOSE i \in DOMAIN s :
                         s[i] \notin cs /\ \A j \in (i + 1)..Len(s) : s[j] \in cs
         IN  SubSeq(s, first, last)

\* The text up to its first line feed.
UpToLineFeed(s) ==
    LET feeds == {i \in DOMAIN s : s[i] = "\n"}
    IN  IF feeds = {} THEN s ELSE SubSeq(s, 1, Min(feeds) - 1)

\* The first line of the raw text without its quotes and white space: the
\* text loses the quotes and then the white space at its ends, and its
\* first line the white space at its ends.
StrippedFirstLine(raw) ==
    Stripped(UpToLineFeed(Stripped(Stripped(raw, Quotes), Space)), Space)

\* The candidate of the k-th pattern in the line l: the text its group
\* matched, without the white space around it.
Candidate(k, l) == Stripped(FindStringSubmatch(k, l).group, Space)

\* The k-th pattern yields an acceptable candidate in the line l: it
\* matches, and its candidate has a colon and is shorter than 72 characters.
Acceptable(k, l) ==
    LET c == Candidate(k, l)
    IN  /\ FindStringSubmatch(k, l).found
        /\ HasColon(c)
        /\ Len(c) < 72

\* C11: after the raw text has been cleaned, the result is a string for
\* every input; when the first
\* line is not well-formed and no pattern yields an acceptable candidate,
\* the result is the whole stripped first line, whatever its length.
C11_NeverTruncates ==
    Len(cleaned) = 1 =>
        LET l == StrippedFirstLine(message)
        IN  /\ DOMAIN cleaned[1] = 1..Len(cleaned[1])
            /\ (~WellFormed(l) /\ \A k \in 1..NumPatterns : ~Acceptable(k, l))
                   => cleaned[1] = l

\* C11 happens: the line of 1000 letters without a colon, after a blank
\* line, has been returned whole.
C11_Witness ==
    /\ cleaned # <<>>
    /\ message = <<"\n">> \o LongLine
    /\ Len(cleaned[1]) = LongLength

\* The outcome of a validation: the format of the error, or the empty
\* format of no error.
Outcome(r) == r.err.format

\* C19: a validation has one outcome, decided in the order colon, type,
\* length: without a colon it is the malformed-format error, also for a
\* message longer than 72 characters; with a colon and an unregistered type
\* it is the invalid-type error, also for a message longer than 72
\* characters; then the too-long error; else none.
C19_CheckOrder ==
    \A i \in DOMAIN verdicts :
        LET m == Stripped(message, Space)
        IN  Outcome(verdicts[i]) =
                IF ~HasColon(m) THEN FormatMalformed
                ELSE IF TypeToken(m) \notin RegisteredTypes THEN FormatInvalidType
                ELSE IF Len(m) > 72 THEN FormatTooLong
                ELSE ""

\* C19 happens: a message with a colon, of an unregistered type and longer
\* than 72 characters, has been rejected for its type.
C19_Witness ==
    /\ verdicts # <<>>
    /\ HasColon(message)
    /\ TypeToken(TrimSpace(message)) = TypeBogus
    /\ Len(TrimSpace(message)) > 72
    /\ Outcome(verdicts[1]) = FormatInvalidType

\* C20: after the raw text has been cleaned: when the first line is not
\* returned as it is, the result is the
\* candidate, without its quotes, of the first pattern in the order
\* "commit message:", "should be:", "message is:", "message:", leading
\* type(scope): text, that yields an acceptable candidate: a pattern whose
\* candidate is not acceptable is passed over, and a later pattern does not
\* override an earlier acceptable one.
C20_PatternOrder ==
    Len(cleaned) = 1 =>
        LET l == StrippedFirstLine(message)
            ks == {k \in 1..NumPatterns : Acceptable(k, l)}
        IN  (~WellFormed(l) /\ ks # {}) =>
                cleaned[1] = Stripped(Candidate(Min(ks), l), Quotes)

\* C20 happens: in a line where "commit message:" is followed by a quoted
\* text without a colon and "should be:" by a quoted message, the first
\* pattern was passed over and the message of the second is the result.
C20_Witness ==
    /\ cleaned # <<>>
    /\ message = LongProse \o IntroCommitMessage \o <<"\"">> \o MsgNoColon
                     \o <<"\"">> \o SecondPhrase
    /\ FindStringSubmatch(1, message).found
    /\ ~Acceptable(1, message)
    /\ cleaned[1] = MsgFeatX

\* The places of the log where the command cmd was run.
RunsOf(cmd) ==
    {i \in DOMAIN log : log[i].kind = "run" /\ log[i].what = cmd}

\* The places of the log where git add or git commit was run.
GitWrites == RunsOf(GitAdd) \cup RunsOf(GitCommit)

\* The places of the log where the provider's command was run.
ProviderRuns ==
    {i \in DOMAIN log : log[i].kind = "run" /\ Head(log[i].what) = "exec"}

\* The places of the log where the answer of the user was read.
Scans == {i \in DOMAIN log : log[i].kind = "scan"}

\* C12: git commit is only run with a message for which
\* ValidateCommitMessage returned no error.
C12_OnlyValidCommitted ==
    \A i \in RunsOf(GitCommit) :
        /\ verdicts # <<>>
        /\ verdicts[Len(verdicts)].err = Nil

\* The answers y and yes, in either case of each letter.
YesWords ==
    {<<y>> : y \in {"y", "Y"}}
        \cup {<<y, e, z>> : y \in {"y", "Y"}, e \in {"e", "E"}, z \in {"s", "S"}}

\* The user answered y or yes: the line typed, without the blanks around
\* it, is one of these words.
AnsweredYes(stdin) == Stripped(UpToLineFeed(stdin), Blank) \in YesWords

\* C13: git add and git commit run only after the user has answered the
\* prompt with y or yes; after any other answer, an empty answer or the end
\* of input, neither runs and the command returns without error.
C13_ConfirmationGate ==
    /\ \A i \in GitWrites :
           \E j \in Scans : j < i /\ AnsweredYes(log[j].arg)
    /\ \A j \in Scans :
           ~AnsweredYes(log[j].arg) =>
               /\ GitWrites = {}
               /\ pc = "returned"
               /\ result = Nil

\* C13 happens: the user answered YES and git commit ran.
C13_Witness ==
    /\ \E j \in Scans : log[j].arg = <<"Y", "E", "S", "\n">>
    /\ RunsOf(GitCommit) # {}

\* C14: "Committed successfully!" is printed only after git commit has run
\* and succeeded.
C14_SuccessAfterCommit ==
    \A i \in DOMAIN log :
        (log[i].kind = "print" /\ log[i].what = <<"Committed successfully!\n">>) =>
            \E j \in RunsOf(GitCommit) : j < i /\ log[j].ok

\* C15: the provider's command is run at most once; when it fails, the
\* command returns the error "failed to generate commit message" at once:
\* nothing is cleaned, validated, asked or committed after it.
C15_ProviderFailureTerminal ==
    /\ Cardinality(ProviderRuns) <= 1
    /\ \A i \in ProviderRuns :
           ~log[i].ok =>
               /\ i = Len(log)
               /\ pc = "returned"
               /\ result.format = "failed to generate commit message: %w"
               /\ cleaned = <<>>
               /\ verdicts = <<>>

\* C15 happens: the provider's command failed and the command returned.
C15_Witness ==
    /\ \E i \in ProviderRuns : ~log[i].ok
    /\ pc = "returned"

\* The listing commands of the mode that were run, and each named no file.
FoundNoFiles ==
    /\ mode \in Modes
    /\ \A k \in DOMAIN ListingCommands[mode] :
           \E i \in RunsOf(ListingCommands[mode][k]) :
               /\ log[i].ok
               /\ \A c \in DOMAIN log[i].out : log[i].out[c] \in Space

\* C16: outside a git repository the command fails with "not in a git
\* repository"; when the mode finds no files it fails with a no-changes
\* error; in both cases no prompt is built, no provider called, no answer
\* asked and nothing staged or committed.
C16_NothingToAnalyse ==
    /\ (\E i \in RunsOf(<<"git", "rev-parse", "--git-dir">>) : ~log[i].ok) =>
           /\ pc = "returned"
           /\ result = [format |-> "not in a git repository", args |-> <<>>]
           /\ Len(log) = 1
           /\ prompts = <<>>
    /\ FoundNoFiles =>
           /\ pc = "returned"
           /\ result.format \in {"no changes found to analyze",
                                 "no staged files found",
                                 "no untracked files found"}
           /\ prompts = <<>>
           /\ ProviderRuns = {}
           /\ Scans = {}
           /\ GitWrites = {}

\* C16 happens: in the mode all, neither listing named a file and the
\* command returned the no-changes error.
C16_Witness ==
    /\ mode = "all"
    /\ FoundNoFiles
    /\ result.format = "no changes found to analyze"

\* C17: in the modes all and untracked git commit runs right after a git
\* add that succeeded, and a confirmed commit runs git add first; in the
\* mode staged git add never runs and a confirmed commit runs git commit.
C17_StagingByMode ==
    /\ mode = "staged" =>
           /\ RunsOf(GitAdd) = {}
           /\ pc = "returned" /\ (\E j \in Scans : AnsweredYes(log[j].arg))
                  => log[Len(log)].what = GitCommit
    /\ mode \in {"all", "untracked"} =>
           /\ \A i \in RunsOf(GitCommit) :
                  i - 1 \in RunsOf(GitAdd) /\ log[i - 1].ok
           /\ \A i \in RunsOf(GitAdd) :
                  /\ log[i].ok /\ pc = "returned" => i + 1 \in RunsOf(GitCommit)
                  /\ ~log[i].ok => i = Len(log)
           /\ pc = "returned" /\ (\E j \in Scans : AnsweredYes(log[j].arg))
                  => RunsOf(GitAdd) # {}

\* C17 happens: in the mode untracked git add and then git commit ran; the
\* runs of the mode staged hold a git commit without git add.
C17_Witness ==
    /\ mode = "untracked"
    /\ \E i \in RunsOf(GitAdd) : i + 1 \in RunsOf(GitCommit)

\* The command a provider name stands for: claude for every name that
\* begins with claude, gemini and copilot for themselves, none (the empty
\* text) for every other name.
ExpectedCommand(name) ==
    IF Len(name) >= 6 /\ SubSeq(name, 1, 6) = <<"c", "l", "a", "u", "d", "e">>
        THEN <<"c", "l", "a", "u", "d", "e">>
    ELSE IF name \in {<<"g", "e", "m", "i", "n", "i">>,
                      <<"c", "o", "p", "i", "l", "o", "t">>}
        THEN name
    ELSE <<>>

\* C18: a command that ran for a provider name is the one the name stands
\* for, and for a name that stands for none no command ran.
C18_ProviderDispatch ==
    \A i \in ProviderRuns :
        log[i].ok =>
            /\ ExpectedCommand(provider) # <<>>
            /\ log[i].arg = ExpectedCommand(provider)

\* C22: the type token ValidateCommitMessage checks is the text before the
\* first "(" of the trimmed part before the first colon: a message with a
\* colon fails with the invalid-type error, which names that token, exactly
\* when that token is not registered; so a message of type feat whose scope
\* has a colon in it is accepted.
C22_TypeToken ==
    \A i \in DOMAIN verdicts :
        LET m == Stripped(message, Space)
            r == verdicts[i]
        IN  HasColon(m) =>
                /\ (r.err.format = FormatInvalidType) <=>
                       (TypeToken(m) \notin RegisteredTypes)
                /\ r.err.format = FormatInvalidType => r.err.args[1] = TypeToken(m)
                /\ r.err.format = FormatMalformed => FALSE

\* C22 happens: feat(service:auth): followed by a description has been
\* accepted.
C22_Witness ==
    /\ verdicts # <<>>
    /\ Len(message) > 20
    /\ SubSeq(message, 1, 19) =
           <<"f", "e", "a", "t", "(", "s", "e", "r", "v", "i", "c", "e", ":",
             "a", "u", "t", "h", ")", ":">>
    /\ verdicts[1].err = Nil

\* What decides the outcome: whether the trimmed message has a colon, its
\* type token, and its length.
Signature(m) ==
    [colon |-> HasColon(m),
     type |-> IF HasColon(m) THEN TypeToken(m) ELSE <<>>,
     length |-> Len(m)]

\* The outcome that goes with a signature: the error, and whether the
\* length warning is printed.
OutcomeOf(sig) ==
    IF ~sig.colon THEN [format |-> FormatMalformed, warned |-> FALSE]
    ELSE IF sig.type \notin RegisteredTypes
        THEN [format |-> FormatInvalidType, warned |-> FALSE]
    ELSE IF sig.length > 72 THEN [format |-> FormatTooLong, warned |-> FALSE]
    ELSE [format |-> "", warned |-> sig.length > 50]

C25_CleanEnds ==
    \A i \in DOMAIN cleaned :
        cleaned[i] # <<>> =>
            /\ cleaned[i][1] \notin Space \cup Quotes
            /\ cleaned[i][Len(cleaned[i])] \notin Space \cup Quotes

\* C26: the result of a cleaning has no line feed.
C26_SingleLine ==
    Len(cleaned) = 1 => \A i \in DOMAIN cleaned[1] : cleaned[1][i] # "\n"

\* C26 happens: a message followed by a blank line and a body has been
\* cleaned to the message alone.
C26_Witness ==
    /\ cleaned # <<>>
    /\ message = MsgFix \o BodyText
    /\ \E i \in DOMAIN message : message[i] = "\n"
    /\ cleaned[1] = MsgFix

\* The text sub stands somewhere in the text s.
Within(sub, s) ==
    \E i \in 1..(Len(s) - Len(sub) + 1) : SubSeq(s, i, i + Len(sub) - 1) = sub

\* C27 as stated: the result of a cleaning stands in the first non-blank
\* line of the raw text.
C27_WithinFirstNonBlankLine ==
    (Len(cleaned) = 1 /\ \E i \in DOMAIN message : message[i] \notin Space) =>
        Within(cleaned[1], FirstNonBlankLine(message))

\* C27, amended: the result of a cleaning stands in the first line of what
\* is left of the raw text when the quotes and then the white space at its
\* two ends are gone.
C27_WithinStrippedFirstLine ==
    Len(cleaned) = 1 => Within(cleaned[1], StrippedFirstLine(message))

\* C27 happens: the message quoted at the end of a long line of prose has
\* been cut out of the line.
C27_Witness ==
    /\ cleaned # <<>>
    /\ message = LongProse \o IntroShouldBe \o <<"\"">> \o MsgFix \o <<"\"">>
    /\ cleaned[1] = MsgFix
    /\ Len(cleaned[1]) < Len(StrippedFirstLine(message))

\* The places of the log where git diff of one file was run or one file
\* was read.
PerFileRuns ==
    {i \in DOMAIN log :
        /\ log[i].kind = "run"
        /\ \/ log[i].what = <<"os", "ReadFile">>
           \/ /\ SubSeq(log[i].what, 1, 2) = <<"git", "diff">>
              /\ \E k \in DOMAIN log[i].what : log[i].what[k] = "--unified=3"}

\* The places of the analysis text where the heading of a file begins.
Headings == {i \in DOMAIN analysisInput : analysisInput[i] = "\n--- "}

\* The excerpt under the heading at h: the text after the end of the
\* heading up to the next heading, the next title, or the end of the text.
ExcerptUnder(h) ==
    LET close == CHOOSE i \in (h + 1)..Len(analysisInput) :
                     /\ analysisInput[i] \in {" ---\n", " (new) ---\n"}
                     /\ \A j \in (h + 1)..(i - 1) :
                            analysisInput[j] \notin {" ---\n", " (new) ---\n"}
        stops == {i \in (close + 1)..Len(analysisInput) :
                     analysisInput[i] \in {"\n--- ", "\n=== UNTRACKED FILES ===\n"}}
        stop == IF stops = {} THEN Len(analysisInput) + 1
                ELSE CHOOSE i \in stops : \A j \in stops : i <= j
    IN  [file |-> SubSeq(analysisInput, h + 1, close - 1),
         text |-> SubSeq(analysisInput, close + 1, stop - 1)]

\* C24: the analysis text has one excerpt for each git diff of a file and
\* each read of a file, in their order; the excerpt has at most 2000
\* bytes: it is the whole output when that has 2000 bytes or fewer, and
\* its first 2000 bytes when it has more.
C24_ExcerptCapped ==
    /\ Cardinality(Headings) = Cardinality(PerFileRuns)
    /\ \A h \in Headings :
           LET nth == Cardinality({j \in Headings : j <= h})
               run == CHOOSE i \in PerFileRuns :
                          Cardinality({j \in PerFileRuns : j <= i}) = nth
               output == log[run].out
               excerpt == ExcerptUnder(h)
           IN  /\ excerpt.file = log[run].arg
               /\ Len(excerpt.text) <= 2000
               /\ Len(output) <= 2000 => excerpt.text = output
               /\ Len(output) > 2000 => excerpt.text = SubSeq(output, 1, 2000)

\* C24 happens: in the mode all, the diff of a modified file had 2001
\* bytes and the content of an untracked file 2000, and the analysis text
\* has an excerpt for each.
C24_Witness ==
    /\ mode = "all"
    /\ \E i \in PerFileRuns :
           log[i].what[1] = "git" /\ Len(log[i].out) = 2001
    /\ \E i \in PerFileRuns :
           log[i].what[1] = "os" /\ Len(log[i].out) = 2000
    /\ Cardinality(Headings) = 2

\* An unsafe path: it is empty, has two periods in a row, or has one of
\* the characters & | ; < > ( ) $ ` " '.
Unsafe(path) ==
    \/ path = <<>>
    \/ \E i \in 1..(Len(path) - 1) : path[i] = "." /\ path[i + 1] = "."
    \/ \E i \in DOMAIN path :
           path[i] \in {"&", "|", ";", "<", ">", "(", ")", "$", "`", "\"", "'"}

\* C29: no git diff of a file is run with an unsafe path, and no file with
\* an unsafe path is read.
C29_NoUnsafePath ==
    \A i \in PerFileRuns : ~Unsafe(log[i].arg)

\* C29 happens: the listing of the untracked files named a path that
\* leaves the repository and then a file, and only the file was read.
C29_Witness ==
    /\ mode = "untracked"
    /\ Len(log) = 3
    /\ log[1].out = <<".", ".", "/", "x", "\n", "a", ".", "g", "o", "\n">>
    /\ log[3].what = <<"os", "ReadFile">>
    /\ log[3].arg = <<"a", ".", "g", "o">>

\* The places of the log where a command of the analysis was run: every
\* command but the check of the repository, the provider's, git add and
\* git commit.
AnalysisRuns ==
    {i \in DOMAIN log :
        /\ log[i].kind = "run"
        /\ Head(log[i].what) # "exec"
        /\ log[i].what \notin {GitAdd, GitCommit, <<"git", "rev-parse", "--git-dir">>}}

\* The places of the log where the generated message was shown.
Shown ==
    {i \in DOMAIN log :
        /\ log[i].kind = "print"
        /\ log[i].what = <<"Generated commit message:\n\"%s\"\n\n">>}

\* The places of the log where a warning of the validation was printed.
Warnings ==
    {i \in DOMAIN log :
        /\ log[i].kind = "print"
        /\ log[i].what \in {<<"Warning: %s\n">>, <<FormatWarning>>}}

\* Every place of the set a is before every place of the set b.
Before(a, b) == \A i \in a, j \in b : i < j

\* C21: in one run of the command the analysis, the prompt, the provider's
\* command, the cleaning, the validation, the question and the commit come
\* in this order, each at most once; the prompt is built from the analysis
\* text, the text cleaned is the output of the provider's command, the
\* message validated is the cleaned one, and the message shown and the
\* message given to git commit are the cleaned one too.
C21_PipelineOrder ==
    LET analysis == AnalysisRuns
        calls == ProviderRuns
        warnings == Warnings
        shown == Shown
        scans == Scans
        commits == RunsOf(GitCommit)
        writes == RunsOf(GitAdd) \cup commits
    IN  /\ Len(prompts) <= 1 /\ Len(cleaned) <= 1 /\ Len(verdicts) <= 1
        /\ Cardinality(calls) <= 1
        /\ Cardinality(shown) <= 1
        /\ Cardinality(scans) <= 1
        /\ Cardinality(commits) <= 1
        /\ mode \in Modes =>
               \A k \in DOMAIN ListingCommands[mode] :
                   Cardinality(RunsOf(ListingCommands[mode][k])) <= 1
        /\ Before(analysis, calls)
        /\ Before(calls, warnings)
        /\ Before(warnings, shown)
        /\ Before(shown, scans)
        /\ Before(scans, writes)
        /\ (prompts # <<>>) <=> (calls # {})
        /\ prompts # <<>> => prompts[1] \in GetPrompt(analysisInput)
        /\ cleaned # <<>> =>
               /\ \E p \in calls :
                      log[p].ok /\ message = Stripped(log[p].out, Space)
               /\ cleaned[1] = CleanCommitMessage(message)
        /\ verdicts # <<>> =>
               /\ cleaned # <<>>
               /\ verdicts[1] \in ValidateCommitMessage(cleaned[1])
        /\ shown \cup scans \cup writes # {} => verdicts # <<>>
        /\ \A i \in shown : log[i].arg = cleaned[1]
        /\ \A i \in commits : log[i].arg = cleaned[1]

\* C21 happens: the provider wrote a message in quotes, and the command
\* returned after git commit ran with the message without the quotes.
C21_Witness ==
    /\ pc = "returned"
    /\ \E p \in ProviderRuns, i \in RunsOf(GitCommit) :
           /\ log[p].out = <<"\"">> \o MsgFix \o <<"\"", "\n">>
           /\ log[i].arg = MsgFix
    /\ cleaned = <<MsgFix>>

=============================================================================
